---- MODULE Spec2Model ----
(***************************************************************************)
(* A model of llm_dbml: NLParser.parse (the clause loop and the completion *)
(* pass), the schema model it builds (Column, Table, Relationship, Schema  *)
(* and Schema.validate) and the DBSchemaCompiler front end.                *)
(*                                                                         *)
(* Text.  A sentence is a sequence of tokens; a token is a word and a flag *)
(* telling whether a comma follows it directly.  The text of a sentence is *)
(* its tokens joined by single blanks.  Words are strings, so f"{t}_id" is *)
(* the string concatenation t \o "_id" and len(part) is Len.  Every word   *)
(* of the vocabulary used below contains a cue word only by being that cue *)
(* word, so "kw in sentence" is decided token by token (InText, InPhrase). *)
(*                                                                         *)
(* Objects.  Tables are objects with identity: heap[r] is the Table object *)
(* with reference r, schema.tables maps names to references and            *)
(* current_table holds a reference (NoRef for None).                       *)
(***************************************************************************)
EXTENDS Naturals, Sequences, FiniteSets, TLC

VARIABLES
    pc,             \* position in NLParser.parse: "loop" (the sentence loop), "fk"
                    \* (before the foreign key loop), "done" (returned), "raised"
    n,              \* number of sentences taken from the split so far
    sentence,       \* the sentence of the last loop iteration, stripped and lowered
    heap,           \* the Table objects created so far, by reference
    tables,         \* schema.tables: insertion-ordered map name -> reference
    relationships,  \* schema.relationships
    current_table,  \* the local current_table (a reference or NoRef)
    self_schema,    \* DBSchemaCompiler.schema (NoSchema for None)
    call,           \* the last operation called on the compiler
    outcome,        \* how that call ended: "returned" or "ValueError"
    produced,       \* history: compile or load_schema has been called
    failed,         \* history: some call has raised
    gen_schema,     \* TestDataGenerator.generate: the argument schema
    num_rows,       \* generate: the argument num_rows
    data,           \* generate: the local data, an insertion-ordered map
                    \* table name -> rows
    generated_tables, \* generate: the local generated_tables
    gen_pc,         \* position in generate: "while" (the loop test), "for" (in
                    \* the loop over schema.tables.items()), "returned"; "idle"
                    \* when generate is not running
    gen_i,          \* generate: the place of the for loop in schema.tables
    schema_object,  \* a Schema object built through the model's own methods
    method,         \* the last method called on that object
    errors          \* what the last call of validate() on it returned

parserVars == <<pc, n, sentence, heap, tables, relationships, current_table>>
compilerVars == <<self_schema, call, outcome, produced, failed>>
generatorVars == <<gen_schema, num_rows, data, generated_tables, gen_pc, gen_i>>
schemaVars == <<schema_object, method, errors>>
vars == <<pc, n, sentence, heap, tables, relationships, current_table,
          self_schema, call, outcome, produced, failed,
          gen_schema, num_rows, data, generated_tables, gen_pc, gen_i,
          schema_object, method, errors>>

-----------------------------------------------------------------------------
(* Bounds *)

\* sentences per input text
MaxSentences == 4

-----------------------------------------------------------------------------
(* Values *)

None == "None"
NoRef == 0
NoSchema == <<>>
NoLength == 0
NoReference == <<>>

INTEGER == "integer"
BIGINT == "bigint"
VARCHAR == "varchar"
TEXT == "text"
BOOLEAN_TYPE == "boolean"
DATE == "date"
DATETIME == "datetime"
TIMESTAMP == "timestamp"
DECIMAL == "decimal"
FLOAT == "float"
JSON == "json"
UUID == "uuid"

ONE_TO_ONE == "1:1"
ONE_TO_MANY == "1:n"
MANY_TO_ONE == "n:1"
MANY_TO_MANY == "n:m"

\* Column(name, data_type, nullable=True, primary_key=False, unique=False,
\*        default=None, length=None, references=None)
Column(name, data_type, nullable, primary_key, length, references) ==
    [name |-> name, data_type |-> data_type, nullable |-> nullable,
     primary_key |-> primary_key, unique |-> FALSE, default |-> None,
     length |-> length, references |-> references]

\* Table(name): columns=[], note=None
Table(name) == [name |-> name, columns |-> <<>>, note |-> None]

Relationship(from_table, from_column, to_table, to_column, rel_type) ==
    [from_table |-> from_table, from_column |-> from_column,
     to_table |-> to_table, to_column |-> to_column, rel_type |-> rel_type]

-----------------------------------------------------------------------------
(* Sequences *)

\* the least element of a set of positions, 0 when there is none
Least(S) == IF S = {} THEN 0 ELSE CHOOSE i \in S : \A j \in S : i <= j

-----------------------------------------------------------------------------
(* Text *)

W(word) == [w |-> word, c |-> FALSE]
Wc(word) == [w |-> word, c |-> TRUE]

\* str.lower(), on the words the inputs use
Lower(word) ==
    CASE word = "Create" -> "create"
      [] word = "Posts" -> "posts"
      [] word = "Users" -> "users"
      [] OTHER -> word

\* sentence.strip().lower()
StripLower(s) == [i \in DOMAIN s |-> [w |-> Lower(s[i].w), c |-> s[i].c]]

\* kw in text, kw one word
InText(kw, s) == \E i \in DOMAIN s : s[i].w = kw

\* 'a b' in text: a ends a token that no comma follows, b starts the next
InPhrase(a, b, s) ==
    \E i \in DOMAIN s : i < Len(s) /\ s[i].w = a /\ ~s[i].c /\ s[i + 1].w = b

\* 'a b c' in text
InPhrase3(a, b, c, s) ==
    \E i \in DOMAIN s :
        /\ i + 1 < Len(s)
        /\ s[i].w = a /\ ~s[i].c
        /\ s[i + 1].w = b /\ ~s[i + 1].c
        /\ s[i + 2].w = c

TableCues == {"table", "entity", "create"}
ColumnCues == {"has", "with", "contains", "field", "column"}

HasTableCue(s) == \E kw \in TableCues : InText(kw, s)
HasColumnCue(s) == \E kw \in ColumnCues : InText(kw, s)
HasRelationshipCue(s) ==
    \/ InText("references", s)
    \/ InPhrase("links", "to", s)
    \/ InPhrase("belongs", "to", s)
    \/ InPhrase("has", "many", s)
    \/ InPhrase("has", "one", s)

-----------------------------------------------------------------------------
(* NLParser._extract_table_name *)

NameStopWords == {"a", "an", "the", "with", "has"}

\* (?:table|entity|create)\s+(?:called\s+)?["']?(\w+)["']?
Pattern1(s) ==
    LET i == Least({j \in DOMAIN s :
                     j < Len(s) /\ s[j].w \in TableCues /\ ~s[j].c})
    IN  IF i = 0 THEN None
        ELSE IF s[i + 1].w = "called" /\ ~s[i + 1].c /\ i + 2 <= Len(s)
             THEN s[i + 2].w
             ELSE s[i + 1].w

\* (\w+)\s+(?:table|entity)
Pattern2(s) ==
    LET i == Least({j \in DOMAIN s :
                     j < Len(s) /\ ~s[j].c /\ s[j + 1].w \in {"table", "entity"}})
    IN  IF i = 0 THEN None ELSE s[i].w

\* create\s+(\w+)
Pattern3(s) ==
    LET i == Least({j \in DOMAIN s :
                     j < Len(s) /\ s[j].w = "create" /\ ~s[j].c})
    IN  IF i = 0 THEN None ELSE s[i + 1].w

ExtractTableName(s) ==
    LET Found(name) == name # None /\ name \notin NameStopWords
    IN  IF Found(Pattern1(s)) THEN Pattern1(s)
        ELSE IF Found(Pattern2(s)) THEN Pattern2(s)
        ELSE IF Found(Pattern3(s)) THEN Pattern3(s)
        ELSE None

-----------------------------------------------------------------------------
(* NLParser._extract_columns *)

StripWords == {"has", "with", "contains", "field", "column", "called", "named"}
ColumnStopWords == {"a", "an", "the", "table", "entity"}

\* NLParser.TYPE_KEYWORDS ('big integer' is two words and matches no word)
TypeKeyword(word) ==
    CASE word \in {"integer", "int", "number"} -> INTEGER
      [] word = "bigint" -> BIGINT
      [] word \in {"string", "varchar", "email"} -> VARCHAR
      [] word = "text" -> TEXT
      [] word \in {"boolean", "bool", "flag"} -> BOOLEAN_TYPE
      [] word = "date" -> DATE
      [] word = "datetime" -> DATETIME
      [] word = "timestamp" -> TIMESTAMP
      [] word \in {"decimal", "money", "price"} -> DECIMAL
      [] word \in {"float", "double"} -> FLOAT
      [] word = "json" -> JSON
      [] word = "uuid" -> UUID
      [] OTHER -> None

\* re.sub(r'(has|with|contains|field|column|called|named)\s+', '', sentence)
RemovePhrases(s) ==
    SelectSeq([i \in DOMAIN s |-> [w |-> s[i].w, c |-> s[i].c, last |-> i = Len(s)]],
              LAMBDA t : ~(t.w \in StripWords /\ ~t.c /\ ~t.last))

RECURSIVE SplitFrom(_, _, _, _, _)
\* re.split(r',|\sand\s', sentence) from token i on: part is the part being
\* read, parts the parts closed so far, eaten tells that the blank before
\* token i was consumed by the separator just matched
SplitFrom(s, i, part, parts, eaten) ==
    IF i > Len(s) THEN Append(parts, part)
    ELSE IF s[i].w = "and" /\ ~s[i].c /\ i > 1 /\ i < Len(s) /\ ~eaten
         THEN SplitFrom(s, i + 1, <<>>, Append(parts, part), TRUE)
    ELSE IF s[i].c
         THEN SplitFrom(s, i + 1, <<>>, Append(parts, Append(part, W(s[i].w))), FALSE)
    ELSE SplitFrom(s, i + 1, Append(part, W(s[i].w)), parts, FALSE)

SplitParts(s) == SplitFrom(s, 1, <<>>, <<>>, FALSE)

\* the column of one part; the caller has skipped the parts that yield none
PartColumn(part) ==
    LET col_name == part[1].w
        i == Least({j \in DOMAIN part : j > 1 /\ TypeKeyword(part[j].w) # None})
        data_type == IF i = 0 THEN VARCHAR ELSE TypeKeyword(part[i].w)
        nullable == ~( \/ InText("required", part)
                       \/ InPhrase("not", "null", part)
                       \/ InText("mandatory", part) )
        length == IF data_type # VARCHAR THEN NoLength
                  ELSE IF col_name = "email" \/ InText("email", part) THEN 255
                  ELSE IF col_name = "phone" THEN 20
                  ELSE 255
    IN  Column(col_name, data_type, nullable, FALSE, length, NoReference)

\* the parts the loop does not skip
YieldsColumn(part) ==
    /\ part # <<>>
    /\ ~(Len(part) = 1 /\ Len(part[1].w) < 2)
    /\ part[1].w \notin ColumnStopWords

ExtractColumns(s) ==
    LET parts == SelectSeq(SplitParts(RemovePhrases(s)), YieldsColumn)
    IN  [i \in DOMAIN parts |-> PartColumn(parts[i])]

-----------------------------------------------------------------------------
(* Schema and Table *)

\* Schema.get_table: the reference stored under name, or NoRef
GetTable(tbls, name) ==
    LET i == Least({j \in DOMAIN tbls : tbls[j].name = name})
    IN  IF i = 0 THEN NoRef ELSE tbls[i].ref

\* AddTable keeping the table already stored under the name
AddTableKeepingFirst(tbls, name, ref) ==
    IF \E j \in DOMAIN tbls : tbls[j].name = name THEN tbls
    ELSE Append(tbls, [name |-> name, ref |-> ref])

\* Schema.add_table: self.tables[table.name] = table (a dict keeps the place
\* of a key that is assigned again)
AddTable(tbls, name, ref) ==
    LET i == Least({j \in DOMAIN tbls : tbls[j].name = name})
    IN  IF i = 0 THEN Append(tbls, [name |-> name, ref |-> ref])
        ELSE [tbls EXCEPT ![i].ref = ref]

\* list(schema.tables.keys())
TableNames(tbls) == {tbls[i].name : i \in DOMAIN tbls}

\* AddColumn putting the column first
AddColumnFirst(h, ref, col) == [h EXCEPT ![ref].columns = <<col>> \o @]

\* Table.add_column on the object ref
AddColumn(h, ref, col) == [h EXCEPT ![ref].columns = Append(@, col)]

RECURSIVE AddColumns(_, _, _)
\* for col in columns: table.add_column(col)
AddColumns(h, ref, columns) ==
    IF columns = <<>> THEN h
    ELSE AddColumns(AddColumn(h, ref, Head(columns)), ref, Tail(columns))

\* Table.get_primary_keys
GetPrimaryKeys(table) == SelectSeq(table.columns, LAMBDA col : col.primary_key)

\* Table.get_column(name) is not None
HasColumn(table, name) == \E i \in DOMAIN table.columns : table.columns[i].name = name

-----------------------------------------------------------------------------
(* NLParser._extract_relationship *)

\* MentionedTables keeping one mention of the first table
MentionedTablesDistinct(s, tbls) ==
    LET hits == SelectSeq(s, LAMBDA t : t.w \in TableNames(tbls))
        names == [i \in DOMAIN hits |-> hits[i].w]
    IN  IF names = <<>> THEN <<>>
        ELSE <<names[1]>> \o SelectSeq(Tail(names), LAMBDA w : w # names[1])

\* [word.strip(',:;') for word in words if word.strip(',:;') in table_names]
MentionedTables(s, tbls) ==
    LET hits == SelectSeq(s, LAMBDA t : t.w \in TableNames(tbls))
    IN  [i \in DOMAIN hits |-> hits[i].w]

RelType(s) ==
    IF InPhrase("has", "many", s) THEN ONE_TO_MANY
    ELSE IF InPhrase("has", "one", s) THEN ONE_TO_ONE
    ELSE IF InPhrase3("many", "to", "many", s) THEN MANY_TO_MANY
    ELSE MANY_TO_ONE

\* ExtractRelationship with the two tables exchanged
ExtractRelationshipReversed(s, tbls) ==
    LET mentioned_tables == MentionedTables(s, tbls)
    IN  IF Len(mentioned_tables) >= 2
        THEN <<Relationship(mentioned_tables[2], mentioned_tables[1] \o "_id",
                            mentioned_tables[1], "id", RelType(s))>>
        ELSE <<>>

\* <<>> for None, else the one relationship
ExtractRelationship(s, tbls) ==
    LET mentioned_tables == MentionedTables(s, tbls)
    IN  IF Len(mentioned_tables) >= 2
        THEN <<Relationship(mentioned_tables[1], mentioned_tables[2] \o "_id",
                            mentioned_tables[2], "id", RelType(s))>>
        ELSE <<>>

-----------------------------------------------------------------------------
(* NLParser.parse: one iteration of the sentence loop *)

\* The locals of parse: the Schema being built (heap, tables, relationships),
\* current_table, and raised, set when a statement raises.
NewParse ==
    [heap |-> <<>>, tables |-> <<>>, relationships |-> <<>>,
     current_table |-> NoRef, raised |-> FALSE]

\* Classify with the column branch not guarded by current_table
ClassifyWithoutCursor(s, cur) ==
    IF s = <<>> THEN "empty"
    ELSE IF HasTableCue(s) THEN "table"
    ELSE IF HasColumnCue(s) THEN "columns"
    ELSE IF HasRelationshipCue(s) THEN "relationship"
    ELSE "ignored"

\* Classify with the relationship cues looked at first
ClassifyRelationshipFirst(s, cur) ==
    IF s = <<>> THEN "empty"
    ELSE IF HasRelationshipCue(s) THEN "relationship"
    ELSE IF HasTableCue(s) THEN "table"
    ELSE IF cur # NoRef /\ HasColumnCue(s) THEN "columns"
    ELSE "ignored"

\* which branch of the if / elif chain takes the sentence
Classify(s, cur) ==
    IF s = <<>> THEN "empty"
    ELSE IF HasTableCue(s) THEN "table"
    ELSE IF cur # NoRef /\ HasColumnCue(s) THEN "columns"
    ELSE IF HasRelationshipCue(s) THEN "relationship"
    ELSE "ignored"

\* for col in columns: current_table.add_column(col)
AttachColumns(st, columns) ==
    IF columns = <<>> THEN st
    ELSE IF st.current_table = NoRef THEN [st EXCEPT !.raised = TRUE]
    ELSE [st EXCEPT !.heap = AddColumns(@, st.current_table, columns)]

\* DeclareTable forgetting the current table when no name is found
DeclareTableResettingCursor(st, s) ==
    LET table_name == ExtractTableName(s)
        ref == Len(st.heap) + 1
        created == [st EXCEPT !.heap = Append(@, Table(table_name)),
                              !.tables = AddTable(@, table_name, ref),
                              !.current_table = ref]
    IN  IF table_name = None THEN [st EXCEPT !.current_table = NoRef]
        ELSE IF HasColumnCue(s) THEN AttachColumns(created, ExtractColumns(s))
        ELSE created

\* the table branch
DeclareTable(st, s) ==
    LET table_name == ExtractTableName(s)
        ref == Len(st.heap) + 1
        created == [st EXCEPT !.heap = Append(@, Table(table_name)),
                              !.tables = AddTable(@, table_name, ref),
                              !.current_table = ref]
    IN  IF table_name = None THEN st
        ELSE IF HasColumnCue(s) THEN AttachColumns(created, ExtractColumns(s))
        ELSE created

\* the column branch
DeclareColumns(st, s) == AttachColumns(st, ExtractColumns(s))

\* the relationship branch
DeclareRelationship(st, s) ==
    [st EXCEPT !.relationships = @ \o ExtractRelationship(s, st.tables)]

-----------------------------------------------------------------------------
(* NLParser.parse: the completion pass *)

IdColumn == Column("id", INTEGER, FALSE, TRUE, NoLength, NoReference)

\* WithDefaultId without the test for an existing primary key
WithDefaultIdUnguarded(table) == [table EXCEPT !.columns = <<IdColumn>> \o @]

\* WithDefaultId with the id column added by append
WithDefaultIdAppended(table) ==
    IF GetPrimaryKeys(table) = <<>>
    THEN [table EXCEPT !.columns = @ \o <<IdColumn>>]
    ELSE table

\* table.columns.insert(0, Column(name="id", ...)) when the table has no key
WithDefaultId(table) ==
    IF GetPrimaryKeys(table) = <<>>
    THEN [table EXCEPT !.columns = <<IdColumn>> \o @]
    ELSE table

\* for table in schema.tables.values(): ...
AddDefaultIds(st) ==
    LET refs == {st.tables[i].ref : i \in DOMAIN st.tables}
    IN  [st EXCEPT !.heap = [r \in DOMAIN st.heap |->
                                IF r \in refs THEN WithDefaultId(st.heap[r])
                                ELSE st.heap[r]]]

\* AddForeignKey without the look-up of an existing column
AddForeignKeyUnchecked(st, rel) ==
    LET from_table == GetTable(st.tables, rel.from_table)
        to_table == GetTable(st.tables, rel.to_table)
    IN  IF from_table = NoRef \/ to_table = NoRef THEN st
        ELSE [st EXCEPT !.heap = AddColumn(@, from_table,
                  Column(rel.from_column, INTEGER, TRUE, FALSE, NoLength,
                         <<rel.to_table, rel.to_column>>))]

\* AddForeignKey annotating a column that is already there
AddForeignKeyAnnotating(st, rel) ==
    LET from_table == GetTable(st.tables, rel.from_table)
        to_table == GetTable(st.tables, rel.to_table)
        columns == st.heap[from_table].columns
    IN  IF from_table = NoRef \/ to_table = NoRef THEN st
        ELSE IF HasColumn(st.heap[from_table], rel.from_column)
        THEN [st EXCEPT !.heap[from_table].columns =
                 [j \in DOMAIN columns |->
                     IF columns[j].name = rel.from_column
                     THEN [columns[j] EXCEPT !.references = <<rel.to_table, rel.to_column>>]
                     ELSE columns[j]]]
        ELSE [st EXCEPT !.heap = AddColumn(@, from_table,
                  Column(rel.from_column, INTEGER, TRUE, FALSE, NoLength,
                         <<rel.to_table, rel.to_column>>))]

\* the body of the loop over schema.relationships, for one relationship
AddForeignKey(st, rel) ==
    LET from_table == GetTable(st.tables, rel.from_table)
        to_table == GetTable(st.tables, rel.to_table)
    IN  IF from_table = NoRef \/ to_table = NoRef THEN st
        ELSE IF HasColumn(st.heap[from_table], rel.from_column) THEN st
        ELSE [st EXCEPT !.heap = AddColumn(@, from_table,
                  Column(rel.from_column, INTEGER, TRUE, FALSE, NoLength,
                         <<rel.to_table, rel.to_column>>))]

RECURSIVE AddForeignKeysFrom(_, _)
AddForeignKeysFrom(st, rels) ==
    IF rels = <<>> THEN st
    ELSE AddForeignKeysFrom(AddForeignKey(st, Head(rels)), Tail(rels))

\* for rel in schema.relationships: ...
AddForeignKeys(st) == AddForeignKeysFrom(st, st.relationships)

-----------------------------------------------------------------------------
(* Schema.validate *)

RECURSIVE Flatten(_)
Flatten(seqs) == IF seqs = <<>> THEN <<>> ELSE Head(seqs) \o Flatten(Tail(seqs))

\* one entry of the error list: what the message says
Error(kind, table, column, target, names) ==
    [kind |-> kind, table |-> table, column |-> column, target |-> target,
     names |-> names]

\* [c.name for c in table.columns]
ColumnNames(table) == [i \in DOMAIN table.columns |-> table.columns[i].name]

Count(names, name) == Cardinality({i \in DOMAIN names : names[i] = name})

\* "Table '..' has no primary key"
PrimaryKeyErrors(sch) ==
    Flatten([i \in DOMAIN sch.tables |->
        IF GetPrimaryKeys(sch.heap[sch.tables[i].ref]) = <<>>
        THEN <<Error("no primary key", sch.tables[i].name, None, None, {})>>
        ELSE <<>>])

\* "Table '..' references non-existent table / column '..'", for one column
ReferenceErrors(sch, table_name, col) ==
    IF col.references = NoReference THEN <<>>
    ELSE LET ref_table == col.references[1]
             ref_col == col.references[2]
         IN  IF ref_table \notin TableNames(sch.tables)
             THEN <<Error("non-existent table", table_name, col.name, ref_table, {})>>
             ELSE IF ~HasColumn(sch.heap[GetTable(sch.tables, ref_table)], ref_col)
             THEN <<Error("non-existent column", table_name, col.name,
                          ref_table \o "." \o ref_col, {})>>
             ELSE <<>>

ForeignKeyErrors(sch) ==
    Flatten([i \in DOMAIN sch.tables |->
        LET table == sch.heap[sch.tables[i].ref]
        IN  Flatten([j \in DOMAIN table.columns |->
                ReferenceErrors(sch, sch.tables[i].name, table.columns[j])])])

\* "Table '..' has duplicate column names: {..}"
DuplicateErrors(sch) ==
    Flatten([i \in DOMAIN sch.tables |->
        LET col_names == ColumnNames(sch.heap[sch.tables[i].ref])
            duplicates == {col_names[j] : j \in {k \in DOMAIN col_names :
                                                  Count(col_names, col_names[k]) > 1}}
        IN  IF duplicates # {}
            THEN <<Error("duplicate column names", sch.tables[i].name, None, None,
                         duplicates)>>
            ELSE <<>>])

\* "Relationship references non-existent table '..'"
RelationshipErrors(sch) ==
    Flatten([i \in DOMAIN sch.relationships |->
        LET rel == sch.relationships[i]
            Missing(name) ==
                IF name \notin TableNames(sch.tables)
                THEN <<Error("relationship to non-existent table", None, None, name, {})>>
                ELSE <<>>
        IN  Missing(rel.from_table) \o Missing(rel.to_table)])

\* Validate stopping at the first check that finds something
ValidateShortCircuit(sch) ==
    IF PrimaryKeyErrors(sch) # <<>> THEN PrimaryKeyErrors(sch)
    ELSE IF ForeignKeyErrors(sch) # <<>> THEN ForeignKeyErrors(sch)
    ELSE IF DuplicateErrors(sch) # <<>> THEN DuplicateErrors(sch)
    ELSE RelationshipErrors(sch)

\* Schema.validate: the error list
Validate(sch) ==
    PrimaryKeyErrors(sch) \o ForeignKeyErrors(sch) \o DuplicateErrors(sch)
        \o RelationshipErrors(sch)

-----------------------------------------------------------------------------
(* NLParser.parse as a function of the text *)

\* the body of the sentence loop
ProcessSentence(st, s) ==
    LET kind == Classify(s, st.current_table)
    IN  CASE kind = "table" -> DeclareTable(st, s)
          [] kind = "columns" -> DeclareColumns(st, s)
          [] kind = "relationship" -> DeclareRelationship(st, s)
          [] OTHER -> st

RECURSIVE SentenceLoop(_, _)
\* for sentence in sentences: ...
SentenceLoop(st, text) ==
    IF text = <<>> \/ st.raised THEN st
    ELSE SentenceLoop(ProcessSentence(st, StripLower(Head(text))), Tail(text))

\* the locals of parse at its return
Parse(text) == AddForeignKeys(AddDefaultIds(SentenceLoop(NewParse, text)))

-----------------------------------------------------------------------------
(* Input texts *)

Words(ws) == [i \in DOMAIN ws |-> W(ws[i])]

InputTables == {"users", "posts"}
\* a table with the three columns listed for it
ListedColumns == {<<"users", "name", "email", "age">>,
                  <<"posts", "title", "users_id", "id">>}

TableSentences ==
    {Words(<<"Create", "a", T, "table">>) : T \in InputTables}

TableWithColumnsSentences ==
    {Words(<<"create", "a", c[1], "table", "with">>)
        \o <<Wc(c[2]), Wc(c[3]), W("and"), W(c[4])>> : c \in ListedColumns}
    \cup {Words(<<"Create", "a", "users", "table", "with", "name", "and", "email">>)}

ColumnSentences ==
    { Words(<<"with", "name">>),
      Words(<<"with", "users_id">>),
      <<W("has"), Wc("phone"), W("age"), W("int"), W("required")>> }

RelationshipSentences ==
    {Words(<<p[1], "belongs", "to", p[2]>>) :
        p \in {q \in InputTables \X InputTables : q[1] # q[2]}}
    \cup {Words(<<A, "references", B>>) : A \in InputTables, B \in InputTables}
    \cup {Words(<<p[1], "has", k, p[2]>>) :
              p \in {q \in InputTables \X InputTables : q[1] # q[2]},
              k \in {"many", "one"}}
    \cup {Words(<<"Posts", "references", "users">>),
          Words(<<"users", "references", "users", "posts">>)}

OtherSentences ==
    { <<>>,
      Words(<<"create", "a">>),
      Words(<<"create", "a", "with", "name">>),
      Words(<<"create", "posts", "references", "users">>),
      Words(<<"users", "references">>),
      Words(<<"hello">>) }

Sentences ==
    TableSentences \cup TableWithColumnsSentences \cup ColumnSentences
        \cup RelationshipSentences \cup OtherSentences

-----------------------------------------------------------------------------
(* NLParser.parse as a state machine *)

Locals ==
    [heap |-> heap, tables |-> tables, relationships |-> relationships,
     current_table |-> current_table, raised |-> FALSE]

Becomes(st) ==
    /\ heap' = st.heap
    /\ tables' = st.tables
    /\ relationships' = st.relationships
    /\ current_table' = st.current_table

\* one iteration that takes sentence s through branch kind and leaves st
Iteration(s, kind, st) ==
    /\ pc = "loop"
    /\ n < MaxSentences
    /\ Classify(s, current_table) = kind
    /\ Becomes(st)
    /\ pc' = IF st.raised THEN "raised" ELSE "loop"
    /\ n' = n + 1
    /\ sentence' = s
    /\ UNCHANGED <<compilerVars, generatorVars, schemaVars>>

EmptySentence(raw) ==
    LET s == StripLower(raw) IN Iteration(s, "empty", Locals)

TableDeclaration(raw) ==
    LET s == StripLower(raw) IN Iteration(s, "table", DeclareTable(Locals, s))

ColumnDeclaration(raw) ==
    LET s == StripLower(raw) IN Iteration(s, "columns", DeclareColumns(Locals, s))

RelationshipDeclaration(raw) ==
    LET s == StripLower(raw)
    IN  Iteration(s, "relationship", DeclareRelationship(Locals, s))

IgnoredSentence(raw) ==
    LET s == StripLower(raw) IN Iteration(s, "ignored", Locals)

\* the sentences are exhausted: the loop that adds the default id columns
DefaultIds ==
    /\ pc = "loop"
    /\ Becomes(AddDefaultIds(Locals))
    /\ pc' = "fk"
    /\ UNCHANGED <<n, sentence>>
    /\ UNCHANGED <<compilerVars, generatorVars, schemaVars>>

\* the loop that adds the foreign key columns, and the return
ForeignKeys ==
    /\ pc = "fk"
    /\ Becomes(AddForeignKeys(Locals))
    /\ pc' = "done"
    /\ UNCHANGED <<n, sentence>>
    /\ UNCHANGED <<compilerVars, generatorVars, schemaVars>>

\* parse has been called and is at the head of its sentence loop
ParserInit ==
    /\ pc = "loop"
    /\ n = 0
    /\ sentence = <<>>
    /\ heap = <<>>
    /\ tables = <<>>
    /\ relationships = <<>>
    /\ current_table = NoRef

\* DBSchemaCompiler(): self.schema = None
CompilerInit ==
    /\ self_schema = NoSchema
    /\ call = "__init__"
    /\ outcome = "returned"
    /\ produced = FALSE
    /\ failed = FALSE

\* generate is not running
GeneratorIdle ==
    /\ gen_schema = NoSchema
    /\ num_rows = 0
    /\ data = <<>>
    /\ generated_tables = {}
    /\ gen_pc = "idle"
    /\ gen_i = 0

\* no Schema object is being built by hand
SchemaIdle ==
    /\ schema_object = NoSchema
    /\ method = "none"
    /\ errors = <<>>

Init == ParserInit /\ CompilerInit /\ GeneratorIdle /\ SchemaIdle

Next ==
    \/ \E raw \in Sentences : EmptySentence(raw)
    \/ \E raw \in Sentences : TableDeclaration(raw)
    \/ \E raw \in Sentences : ColumnDeclaration(raw)
    \/ \E raw \in Sentences : RelationshipDeclaration(raw)
    \/ \E raw \in Sentences : IgnoredSentence(raw)
    \/ DefaultIds
    \/ ForeignKeys

Spec == Init /\ [][Next]_vars

-----------------------------------------------------------------------------
(* DBSchemaCompiler *)

\* the Schema object parse returns, under the name compile gives it
SchemaOf(st, name) ==
    [name |-> name, heap |-> st.heap, tables |-> st.tables,
     relationships |-> st.relationships]

\* self.schema after compile(nl_description, schema_name)
Compiled(text, schema_name) == SchemaOf(Parse(text), schema_name)

\* the guard inverted
NoSchemaCompiledInverted(schema) == schema # NoSchema

\* if not self.schema
NoSchemaCompiled(schema) == schema = NoSchema

\* texts given to compile
CompileTexts ==
    {<<>>} \cup {<<s>> : s \in Sentences}
    \cup {<<Words(<<"Create", "a", "users", "table">>),
             Words(<<"Create", "a", "posts", "table">>),
             Words(<<"Posts", "references", "users">>)>>}

SchemaNames == {"database", "blog_db"}

\* Schema()
EmptySchema == [name |-> "database", heap |-> <<>>, tables |-> <<>>, relationships |-> <<>>]

\* the schema test_manual_schema_creation builds
ManualSchema ==
    [name |-> "test_db",
     heap |-> <<[name |-> "users", note |-> None,
                 columns |-> <<Column("id", INTEGER, FALSE, TRUE, NoLength, NoReference),
                               Column("name", VARCHAR, TRUE, FALSE, 100, NoReference),
                               Column("email", VARCHAR, TRUE, FALSE, 255, NoReference)>>]>>,
     tables |-> <<[name |-> "users", ref |-> 1]>>,
     relationships |-> <<>>]

\* a schema built by hand whose table has no primary key
KeylessSchema ==
    [name |-> "database",
     heap |-> <<[name |-> "users", note |-> None,
                 columns |-> <<Column("name", VARCHAR, TRUE, FALSE, 100, NoReference)>>]>>,
     tables |-> <<[name |-> "users", ref |-> 1]>>,
     relationships |-> <<>>]

LoadableSchemas == {EmptySchema, ManualSchema, KeylessSchema}

ConsumerOps ==
    {"to_dbml", "validate", "generate_migration", "generate_test_data",
     "visualize_ascii", "visualize_mermaid", "visualize_html", "get_schema",
     "summary"}

Compile(text, schema_name) ==
    /\ IF Parse(text).raised
       THEN outcome' = "AttributeError" /\ failed' = TRUE /\ UNCHANGED self_schema
       ELSE /\ self_schema' = Compiled(text, schema_name)
            /\ outcome' = "returned"
            /\ UNCHANGED failed
    /\ call' = "compile"
    /\ produced' = TRUE
    /\ UNCHANGED <<parserVars, generatorVars, schemaVars>>

LoadSchema(schema) ==
    /\ self_schema' = schema
    /\ call' = "load_schema"
    /\ outcome' = "returned"
    /\ produced' = TRUE
    /\ UNCHANGED failed
    /\ UNCHANGED <<parserVars, generatorVars, schemaVars>>

\* a consumer operation: the guard, then a read of self.schema
Consumer(op) ==
    /\ call' = op
    /\ IF NoSchemaCompiled(self_schema)
       THEN outcome' = "ValueError" /\ failed' = TRUE
       ELSE outcome' = "returned" /\ UNCHANGED failed
    /\ UNCHANGED <<self_schema, produced>>
    /\ UNCHANGED <<parserVars, generatorVars, schemaVars>>

ToDbml == Consumer("to_dbml")
CompilerValidate == Consumer("validate")
GenerateMigration == Consumer("generate_migration")
GenerateTestData == Consumer("generate_test_data")
VisualizeAscii == Consumer("visualize_ascii")
VisualizeMermaid == Consumer("visualize_mermaid")
VisualizeHtml == Consumer("visualize_html")
GetSchema == Consumer("get_schema")
Summary == Consumer("summary")

CompilerNext ==
    \/ \E text \in CompileTexts, schema_name \in SchemaNames : Compile(text, schema_name)
    \/ \E schema \in LoadableSchemas : LoadSchema(schema)
    \/ ToDbml
    \/ CompilerValidate
    \/ GenerateMigration
    \/ GenerateTestData
    \/ VisualizeAscii
    \/ VisualizeMermaid
    \/ VisualizeHtml
    \/ GetSchema
    \/ Summary

CompilerSpec == Init /\ [][CompilerNext]_vars

-----------------------------------------------------------------------------
(* TestDataGenerator *)

\* rows per table asked of generate
MaxRows == 2

\* The values of a row.  None, an integer, and a value _generate_value draws
\* for a column: a value of the column's type made for row index (the random
\* draw and the text made from it are not told apart).
NullValue == [null |-> TRUE]
IntValue(i) == [int |-> i]
Sample(col, index) == [sample |-> col.data_type, index |-> index]

\* d[name] = value on an insertion-ordered dict (a key assigned again keeps
\* its place)
SetItem(d, name, value) ==
    LET i == Least({j \in DOMAIN d : d[j].name = name})
    IN  IF i = 0 THEN Append(d, [name |-> name, value |-> value])
        ELSE [d EXCEPT ![i].value = value]

\* name in d
HasItem(d, name) == \E j \in DOMAIN d : d[j].name = name

\* d[name], for a name in d
Item(d, name) == d[Least({j \in DOMAIN d : d[j].name = name})].value

\* row.get(name)
GetItem(row, name) == IF HasItem(row, name) THEN Item(row, name) ELSE NullValue

\* can_generate with the referenced tables not looked at
CanGenerateAlways(table, table_name, generated) == TRUE

\* can_generate after the loop over table.columns
CanGenerate(table, table_name, generated) ==
    \A j \in DOMAIN table.columns :
        LET col == table.columns[j]
        IN  col.references # NoReference =>
                (col.references[1] \in generated \/ col.references[1] = table_name)

\* _generate_value: None for a nullable column when random.random() < 0.1,
\* else a value of the column's type
GenerateValue(col, index) ==
    {Sample(col, index)} \cup (IF col.nullable THEN {NullValue} ELSE {})

\* the values the body of 'for col in table.columns' can assign to row[col.name]
CellValues(col, i, existing_data) ==
    IF col.primary_key /\ col.data_type = INTEGER THEN {IntValue(i + 1)}
    ELSE IF col.references # NoReference
    THEN LET ref_table == col.references[1]
             ref_col == col.references[2]
         IN  IF HasItem(existing_data, ref_table) /\ Item(existing_data, ref_table) # <<>>
             THEN LET ref_rows == Item(existing_data, ref_table)
                  IN  {GetItem(ref_rows[k], ref_col) : k \in DOMAIN ref_rows}
             ELSE {NullValue}
    ELSE GenerateValue(col, i)

RECURSIVE RowsFrom(_, _, _, _, _)
\* the rows the loop over table.columns can build for index i, from column j on
RowsFrom(columns, j, i, existing_data, row) ==
    IF j > Len(columns) THEN {row}
    ELSE UNION {RowsFrom(columns, j + 1, i, existing_data,
                         SetItem(row, columns[j].name, v)) :
                    v \in CellValues(columns[j], i, existing_data)}

RECURSIVE TableDataFrom(_, _, _, _, _)
\* for i in range(num_rows): ... rows.append(row)
TableDataFrom(table, i, num, existing_data, rows) ==
    IF i >= num THEN {rows}
    ELSE UNION {TableDataFrom(table, i + 1, num, existing_data, Append(rows, row)) :
                    row \in RowsFrom(table.columns, 1, i, existing_data, <<>>)}

\* _generate_table_data: the row lists it can return
GenerateTableData(table, num, existing_data) ==
    TableDataFrom(table, 0, num, existing_data, <<>>)


-----------------------------------------------------------------------------
(* TestDataGenerator.generate as a state machine *)

CreateTable(T) == Words(<<"Create", "a", T, "table">>)
References(A, B) == Words(<<A, "references", B>>)

\* texts whose compiled schemas are given to generate
GeneratorTexts ==
    { <<>>,
      <<CreateTable("users"), CreateTable("posts"), References("posts", "users")>>,
      <<CreateTable("posts"), CreateTable("users"), References("posts", "users")>>,
      <<CreateTable("users"), CreateTable("posts"), References("posts", "users"),
        References("users", "posts")>>,
      <<CreateTable("users"), References("users", "users")>>,
      <<CreateTable("comments"), CreateTable("posts"), CreateTable("users"),
        References("comments", "posts"), References("posts", "users"),
        References("comments", "users")>>,
      <<Words(<<"create", "a", "posts", "table", "with">>)
            \o <<Wc("title"), Wc("users_id"), W("and"), W("id")>>,
        CreateTable("users"), References("users", "posts")>>,
      <<Words(<<"Create", "a", "users", "table", "with", "name", "and", "email">>),
        <<W("has"), Wc("phone"), W("age"), W("int"), W("required")>>>> }

GeneratorSchemas ==
    {Compiled(text, "database") : text \in GeneratorTexts} \cup {ManualSchema}

\* the entry of schema.tables.items() the for loop is at
LoopTableName == gen_schema.tables[gen_i].name
LoopTable == gen_schema.heap[gen_schema.tables[gen_i].ref]

\* the end of one iteration of the for loop
NextIteration ==
    IF gen_i < Len(gen_schema.tables)
    THEN gen_pc' = "for" /\ gen_i' = gen_i + 1
    ELSE gen_pc' = "while" /\ gen_i' = 0

\* while len(generated_tables) < len(schema.tables): the test holds
EnterPass ==
    /\ gen_pc = "while"
    /\ Cardinality(generated_tables) < Len(gen_schema.tables)
    /\ gen_pc' = "for"
    /\ gen_i' = 1
    /\ UNCHANGED <<gen_schema, num_rows, data, generated_tables>>
    /\ UNCHANGED <<parserVars, compilerVars, schemaVars>>

\* the test fails: return data
Return ==
    /\ gen_pc = "while"
    /\ ~(Cardinality(generated_tables) < Len(gen_schema.tables))
    /\ gen_pc' = "returned"
    /\ UNCHANGED <<gen_schema, num_rows, data, generated_tables, gen_i>>
    /\ UNCHANGED <<parserVars, compilerVars, schemaVars>>

\* if table_name in generated_tables: continue
SkipGenerated ==
    /\ gen_pc = "for"
    /\ LoopTableName \in generated_tables
    /\ NextIteration
    /\ UNCHANGED <<gen_schema, num_rows, data, generated_tables>>
    /\ UNCHANGED <<parserVars, compilerVars, schemaVars>>

\* can_generate is False: the table is left for a later pass
LeaveForLater ==
    /\ gen_pc = "for"
    /\ LoopTableName \notin generated_tables
    /\ ~CanGenerate(LoopTable, LoopTableName, generated_tables)
    /\ NextIteration
    /\ UNCHANGED <<gen_schema, num_rows, data, generated_tables>>
    /\ UNCHANGED <<parserVars, compilerVars, schemaVars>>

\* can_generate is True: data[table_name] = _generate_table_data(...)
GenerateTable ==
    /\ gen_pc = "for"
    /\ LoopTableName \notin generated_tables
    /\ CanGenerate(LoopTable, LoopTableName, generated_tables)
    /\ \E rows \in GenerateTableData(LoopTable, num_rows, data) :
           data' = SetItem(data, LoopTableName, rows)
    /\ generated_tables' = generated_tables \cup {LoopTableName}
    /\ NextIteration
    /\ UNCHANGED <<gen_schema, num_rows>>
    /\ UNCHANGED <<parserVars, compilerVars, schemaVars>>

\* generate(schema, num_rows) has been called
GeneratorInit ==
    /\ ParserInit /\ CompilerInit /\ SchemaIdle
    /\ gen_schema \in GeneratorSchemas
    /\ num_rows \in 0..MaxRows
    /\ data = <<>>
    /\ generated_tables = {}
    /\ gen_pc = "while"
    /\ gen_i = 0

GeneratorNext ==
    \/ EnterPass
    \/ Return
    \/ SkipGenerated
    \/ LeaveForLater
    \/ GenerateTable

GeneratorSpec == GeneratorInit /\ [][GeneratorNext]_vars

\* generate runs in one thread: it takes its next step whenever it has one
GeneratorFairSpec == GeneratorSpec /\ WF_vars(GeneratorNext)

-----------------------------------------------------------------------------
(* A Schema built by hand: Schema(), add_table, add_relationship, validate *)

\* Table objects ever handed to add_table
MaxTableObjects == 3
\* relationships handed to add_relationship
MaxRelationships == 2

\* Table(name) after add_column for each of columns
TableWith(name, columns) == [name |-> name, columns |-> columns, note |-> None]

\* the tables handed to add_table
TableObjects ==
    { TableWith("users", <<Column("id", INTEGER, FALSE, TRUE, NoLength, NoReference),
                           Column("name", VARCHAR, TRUE, FALSE, 100, NoReference)>>),
      TableWith("users", <<Column("name", VARCHAR, TRUE, FALSE, 100, NoReference)>>),
      TableWith("posts", <<Column("id", INTEGER, FALSE, TRUE, NoLength, NoReference),
                           Column("users_id", INTEGER, TRUE, FALSE, NoLength,
                                  <<"users", "id">>)>>),
      TableWith("posts", <<Column("title", VARCHAR, TRUE, FALSE, 255, NoReference),
                           Column("title", TEXT, TRUE, FALSE, NoLength, NoReference),
                           Column("author", INTEGER, TRUE, FALSE, NoLength,
                                  <<"users", "uid">>)>>),
      TableWith("posts", <<Column("id", INTEGER, FALSE, TRUE, NoLength, NoReference),
                           Column("id", VARCHAR, TRUE, FALSE, 255, NoReference)>>) }

\* the relationships handed to add_relationship
RelationshipObjects ==
    { Relationship("posts", "users_id", "users", "id", MANY_TO_ONE),
      Relationship("posts", "tags_id", "tags", "id", MANY_TO_ONE),
      Relationship("comments", "tags_id", "tags", "id", MANY_TO_MANY) }

\* Schema(name)
NewSchema(name) == [name |-> name, heap |-> <<>>, tables |-> <<>>, relationships |-> <<>>]

\* ValidateCall that repairs what it finds: it adds the missing id columns
ValidateCallRepairing(sch) ==
    [object |-> [sch EXCEPT !.heap = AddDefaultIds(
                     [heap |-> sch.heap, tables |-> sch.tables]).heap],
     result |-> Validate(sch)]

\* a call of sch.validate(): the object after the call and the list returned
\* (the method reads self.tables and self.relationships and assigns to
\* neither, nor to anything reached through them)
ValidateCall(sch) == [object |-> sch, result |-> Validate(sch)]

\* schema.add_table(table)
SchemaAddTable(table) ==
    /\ Len(schema_object.heap) < MaxTableObjects
    /\ schema_object' =
          [schema_object EXCEPT
              !.heap = Append(@, table),
              !.tables = AddTable(@, table.name, Len(schema_object.heap) + 1)]
    /\ method' = "add_table"
    /\ UNCHANGED errors
    /\ UNCHANGED <<parserVars, compilerVars, generatorVars>>

\* schema.add_relationship(rel)
SchemaAddRelationship(rel) ==
    /\ Len(schema_object.relationships) < MaxRelationships
    /\ schema_object' = [schema_object EXCEPT !.relationships = Append(@, rel)]
    /\ method' = "add_relationship"
    /\ UNCHANGED errors
    /\ UNCHANGED <<parserVars, compilerVars, generatorVars>>

\* errors = schema.validate()
SchemaValidate ==
    /\ schema_object' = ValidateCall(schema_object).object
    /\ errors' = ValidateCall(schema_object).result
    /\ method' = "validate"
    /\ UNCHANGED <<parserVars, compilerVars, generatorVars>>

\* schema = Schema("test_db")
SchemaInit ==
    /\ ParserInit /\ CompilerInit /\ GeneratorIdle
    /\ schema_object = NewSchema("test_db")
    /\ method = "__init__"
    /\ errors = <<>>

SchemaNext ==
    \/ \E table \in TableObjects : SchemaAddTable(table)
    \/ \E rel \in RelationshipObjects : SchemaAddRelationship(rel)
    \/ SchemaValidate

SchemaSpec == SchemaInit /\ [][SchemaNext]_vars

-----------------------------------------------------------------------------
(* Claims *)

\* the inputs 'create a T table with c1, c2, and c3', as the loop sees them
ListedColumnsSentences ==
    {StripLower(s) : s \in {x \in TableWithColumnsSentences : Len(x) = 9}}

\* a nullable short-text column of length 255
ShortText(name) == Column(name, VARCHAR, TRUE, FALSE, 255, NoReference)

\* the columns of table named name, "users_id" style names included
ColumnsNamed(table, name) == SelectSeq(table.columns, LAMBDA col : col.name = name)

\* C1: for every input text parse returns a Schema (possibly without tables)
\* and raises nothing: no statement of the sentence loop or of the completion
\* pass raises, and at the return every entry of schema.tables is a Table
\* stored under its name.
C1_ParseNeverRaises ==
    /\ pc \in {"loop", "fk", "done"}
    /\ pc = "done" =>
          \A i \in DOMAIN tables :
              /\ tables[i].ref \in DOMAIN heap
              /\ heap[tables[i].ref].name = tables[i].name

\* parse has returned an empty schema after a sentence whose table name could
\* not be extracted
C1_Witness ==
    /\ pc = "done"
    /\ n >= 2
    /\ sentence = Words(<<"create", "a">>)
    /\ tables = <<>>

\* C2: the schema parse returns validates without errors.
C2_CompiledSchemaValid == pc = "done" => Validate(Locals) = <<>>

\* C3: after parse returns every table has exactly one primary-key column: the
\* synthetic one, named id, integer, not nullable, first in the column sequence.
C3_OnePrimaryKey ==
    pc = "done" =>
        \A i \in DOMAIN tables :
            LET columns == heap[tables[i].ref].columns
            IN  /\ Cardinality({j \in DOMAIN columns : columns[j].primary_key}) = 1
                /\ columns[1].primary_key
                /\ columns[1].name = "id"
                /\ columns[1].data_type = INTEGER
                /\ ~columns[1].nullable

\* parse has returned a table that also holds an extracted column named id
C3_Witness ==
    /\ pc = "done"
    /\ \E i \in DOMAIN tables :
          LET columns == heap[tables[i].ref].columns
          IN  \E j \in DOMAIN columns : j > 1 /\ columns[j].name = "id"

\* C4: the completion pass is idempotent: run again on the schema parse returns,
\* it adds no column and changes nothing else.
C4_CompletionIdempotent ==
    pc = "done" =>
        LET again == AddForeignKeys(AddDefaultIds(Locals))
        IN  /\ again.heap = heap
            /\ again.tables = tables
            /\ again.relationships = relationships

\* parse has returned a schema to which the pass added a foreign key column
C4_Witness ==
    /\ pc = "done"
    /\ relationships # <<>>
    /\ \E i \in DOMAIN tables :
          \E j \in DOMAIN heap[tables[i].ref].columns :
              heap[tables[i].ref].columns[j].references # NoReference

\* C5: the foreign key loop leaves, for every relationship from T1 to T2, a
\* column T2_id in T1; when T1 had no column of that name before the loop, T1
\* then has exactly one, a nullable integer referencing (T2, id).
C5_ForeignKeyColumns ==
    [][pc = "fk" /\ pc' = "done" =>
        \A i \in DOMAIN relationships :
            LET rel == relationships[i]
                name == rel.to_table \o "_id"
                from_ref == GetTable(tables', rel.from_table)
            IN  /\ from_ref # NoRef
                /\ from_ref = GetTable(tables, rel.from_table)
                /\ ColumnsNamed(heap'[from_ref], name) # <<>>
                /\ ColumnsNamed(heap[from_ref], name) = <<>> =>
                      ColumnsNamed(heap'[from_ref], name) =
                          <<Column(name, INTEGER, TRUE, FALSE, NoLength,
                                   <<rel.to_table, "id">>)>>
      ]_vars

\* parse has returned a schema with two relationships between the same pair of
\* different tables and one foreign key column for them
C5_Witness ==
    /\ pc = "done"
    /\ Len(relationships) >= 2
    /\ relationships[1] = relationships[2]
    /\ relationships[1].from_table # relationships[1].to_table
    /\ Len(ColumnsNamed(heap[GetTable(tables, relationships[1].from_table)],
                        relationships[1].from_column)) = 1

\* C6: the one-sentence text 'create a T table with c1, c2, and c3' yields the
\* table T with the columns id, c1, c2, c3, the last three nullable short-text
\* of length 255.
C6_ListedColumns ==
    (pc = "done" /\ n = 1 /\ sentence \in ListedColumnsSentences) =>
        /\ tables = <<[name |-> sentence[3].w, ref |-> 1]>>
        /\ heap[1].columns = <<IdColumn, ShortText(sentence[6].w),
                               ShortText(sentence[7].w), ShortText(sentence[9].w)>>

\* C7: with A and B different tables of the schema, the sentence 'A belongs to
\* B' or 'A references B' appends the many-to-one relationship from A.B_id to
\* B.id to schema.relationships.
C7_BelongsToAppends ==
    [][\A A \in InputTables, B \in InputTables :
          ( /\ pc = "loop" /\ n' = n + 1
            /\ A # B
            /\ {A, B} \subseteq TableNames(tables)
            /\ sentence' \in {Words(<<A, "belongs", "to", B>>),
                               Words(<<A, "references", B>>)} )
          => relationships' =
                 Append(relationships,
                        Relationship(A, B \o "_id", B, "id", MANY_TO_ONE))
      ]_vars

\* the loop has just read 'posts belongs to users' and the relationship from
\* posts to users is the last of the list
C7_Witness ==
    /\ pc = "loop"
    /\ sentence = Words(<<"posts", "belongs", "to", "users">>)
    /\ relationships # <<>>
    /\ relationships[Len(relationships)] =
           Relationship("posts", "users_id", "users", "id", MANY_TO_ONE)

\* C8: with X and Y different tables of the schema, the sentence 'X has many Y'
\* leaves a one-to-many relationship from X to Y as the last relationship, and
\* 'X has one Y' a one-to-one relationship.
C8_HasManyHasOne ==
    \A X \in InputTables, Y \in InputTables, k \in {"many", "one"} :
        ( /\ pc = "loop"
          /\ X # Y
          /\ {X, Y} \subseteq TableNames(tables)
          /\ sentence = Words(<<X, "has", k, Y>>) )
        => /\ relationships # <<>>
           /\ relationships[Len(relationships)] =
                  Relationship(X, Y \o "_id", Y, "id",
                               IF k = "many" THEN ONE_TO_MANY ELSE ONE_TO_ONE)

\* C9 as stated: every relationship parse produces joins two different tables.
C9_DistinctEndpoints ==
    \A i \in DOMAIN relationships :
        relationships[i].from_table # relationships[i].to_table

\* C9: a sentence taken by the relationship branch appends one relationship,
\* from the first to the second token that names a table of the schema as it
\* is when the sentence is read (the two may be the same table), and none when
\* fewer than two tokens name such a table.
C9_FirstTwoMentions ==
    [][(pc = "loop" /\ n' = n + 1
            /\ Classify(sentence', current_table) = "relationship") =>
        LET s == sentence'
            hits == {i \in DOMAIN s : \E j \in DOMAIN tables : tables[j].name = s[i].w}
            first == Least(hits)
            second == Least(hits \ {first})
        IN  IF Cardinality(hits) >= 2
            THEN /\ Len(relationships') = Len(relationships) + 1
                 /\ SubSeq(relationships', 1, Len(relationships)) = relationships
                 /\ LET rel == relationships'[Len(relationships')]
                    IN  /\ rel.from_table = s[first].w
                        /\ rel.to_table = s[second].w
                        /\ rel.from_column = s[second].w \o "_id"
                        /\ rel.to_column = "id"
            ELSE relationships' = relationships
      ]_vars

\* the loop has just read 'users references users posts' and appended a
\* relationship from users to users
C9_Witness ==
    /\ pc = "loop"
    /\ sentence = Words(<<"users", "references", "users", "posts">>)
    /\ relationships # <<>>
    /\ relationships[Len(relationships)].from_table = "users"
    /\ relationships[Len(relationships)].to_table = "users"

ReferencedTables(table) ==
    {table.columns[j].references[1] :
        j \in {k \in DOMAIN table.columns : table.columns[k].references # NoReference}}

\* C11: in data, at every moment of generate and at its return, a table comes
\* after every other table its foreign-key columns reference, and in each of
\* its rows the value of a foreign-key column pointing at table B is None or
\* the value some row generated earlier for B holds under a primary-key column
\* of B.
C11_ForeignKeysFollowReferenced ==
    \A a \in DOMAIN data :
        LET A == data[a].name
            table == gen_schema.heap[GetTable(gen_schema.tables, A)]
            Earlier(B) == {b \in 1..(a - 1) : data[b].name = B}
        IN  /\ \A B \in ReferencedTables(table) \ {A} : Earlier(B) # {}
            /\ \A j \in DOMAIN table.columns, r \in DOMAIN data[a].value :
                  LET col == table.columns[j]
                      v == GetItem(data[a].value[r], col.name)
                  IN  col.references # NoReference =>
                        \/ v = NullValue
                        \/ \E b \in Earlier(col.references[1]) :
                             LET target == gen_schema.heap[
                                     GetTable(gen_schema.tables, data[b].name)]
                                 keys == GetPrimaryKeys(target)
                             IN  \E k \in DOMAIN data[b].value, q \in DOMAIN keys :
                                    v = GetItem(data[b].value[k], keys[q].name)

\* generate has returned data in which a table declared before the table it
\* references comes after it and holds a foreign-key value that is not None
C11_Witness ==
    /\ gen_pc = "returned"
    /\ Len(data) >= 2
    /\ gen_schema.tables[1].name = "posts"
    /\ data[1].name = "users"
    /\ data[2].name = "posts"
    /\ \E r \in DOMAIN data[2].value :
          GetItem(data[2].value[r], "users_id") = IntValue(2)

\* the rows of table_name in data are num_rows rows whose integer primary
\* key runs from 1 to num_rows
RowsComplete(table_name) ==
    /\ HasItem(data, table_name)
    /\ LET rows == Item(data, table_name)
           keys == GetPrimaryKeys(gen_schema.heap[GetTable(gen_schema.tables, table_name)])
       IN  /\ Len(rows) = num_rows
           /\ \A r \in DOMAIN rows, q \in DOMAIN keys :
                 keys[q].data_type = INTEGER =>
                     GetItem(rows[r], keys[q].name) = IntValue(r)

\* C12: for every compiled schema and every num_rows, generate returns (a
\* schema whose relationships form a cycle included).
C12_GenerateTerminates == <>(gen_pc = "returned")

\* C12, the rest: the data generate returns hold for every table of the schema
\* num_rows rows whose integer primary key takes the values 1..num_rows in
\* order.
C12_RowsComplete ==
    gen_pc = "returned" =>
        \A i \in DOMAIN gen_schema.tables : RowsComplete(gen_schema.tables[i].name)

ColumnsAt(sch, i) == sch.heap[sch.tables[i].ref].columns

\* the four conditions of validate, on a Schema object
EveryTableHasKey(sch) ==
    \A i \in DOMAIN sch.tables :
        \E j \in DOMAIN ColumnsAt(sch, i) : ColumnsAt(sch, i)[j].primary_key

EveryReferenceExists(sch) ==
    \A i \in DOMAIN sch.tables :
        \A j \in DOMAIN ColumnsAt(sch, i) :
            LET col == ColumnsAt(sch, i)[j]
            IN  col.references # NoReference =>
                    \E k \in DOMAIN sch.tables :
                        /\ sch.tables[k].name = col.references[1]
                        /\ \E q \in DOMAIN ColumnsAt(sch, k) :
                              ColumnsAt(sch, k)[q].name = col.references[2]

NoRepeatedColumn(sch) ==
    \A i \in DOMAIN sch.tables :
        \A j \in DOMAIN ColumnsAt(sch, i), k \in DOMAIN ColumnsAt(sch, i) :
            j # k => ColumnsAt(sch, i)[j].name # ColumnsAt(sch, i)[k].name

EveryEndpointExists(sch) ==
    \A r \in DOMAIN sch.relationships :
        \A name \in {sch.relationships[r].from_table, sch.relationships[r].to_table} :
            \E k \in DOMAIN sch.tables : sch.tables[k].name = name

\* the kinds of the errors of a list
Kinds(errs) == {errs[e].kind : e \in DOMAIN errs}

\* C14: the list validate returns is empty exactly when the four conditions
\* hold; a condition that fails is reported whatever the other conditions
\* do, and every table without a primary key has an error of its own that
\* names it.
C14_ValidateReportsAll ==
    method = "validate" =>
        LET sch == schema_object
        IN  /\ errors = <<>> <=>
                  /\ EveryTableHasKey(sch)
                  /\ EveryReferenceExists(sch)
                  /\ NoRepeatedColumn(sch)
                  /\ EveryEndpointExists(sch)
            /\ \A i \in DOMAIN sch.tables :
                  (\A j \in DOMAIN ColumnsAt(sch, i) : ~ColumnsAt(sch, i)[j].primary_key)
                  => \E e \in DOMAIN errors :
                        /\ errors[e].kind = "no primary key"
                        /\ errors[e].table = sch.tables[i].name
            /\ ~EveryReferenceExists(sch) =>
                  Kinds(errors) \cap {"non-existent table", "non-existent column"} # {}
            /\ ~NoRepeatedColumn(sch) => "duplicate column names" \in Kinds(errors)
            /\ ~EveryEndpointExists(sch) =>
                  "relationship to non-existent table" \in Kinds(errors)

\* validate has returned a list that reports two tables without a primary key
\* together with a failure of each of the other three conditions
C14_Witness ==
    /\ method = "validate"
    /\ Cardinality({e \in DOMAIN errors : errors[e].kind = "no primary key"}) = 2
    /\ {"non-existent column", "duplicate column names",
        "relationship to non-existent table"} \subseteq Kinds(errors)

\* the loop takes its next sentence in this step
ReadsSentence == pc = "loop" /\ n' = n + 1

\* the words of a sentence
WordsOf(s) == {s[i].w : i \in DOMAIN s}

\* C15: a sentence holding one of the words table, entity, create adds no
\* relationship and leaves every table object there was before it, the current
\* table included, as it was, whatever relationship cue and table names it holds.
C15_TableCueWins ==
    [][(ReadsSentence /\ WordsOf(sentence') \cap {"table", "entity", "create"} # {}) =>
          /\ relationships' = relationships
          /\ \A r \in DOMAIN heap : heap'[r] = heap[r]
      ]_vars

\* the loop has just read 'create posts references users' with users and posts
\* already declared: posts is declared again and there is no relationship
C15_Witness ==
    /\ pc = "loop"
    /\ sentence = Words(<<"create", "posts", "references", "users">>)
    /\ relationships = <<>>
    /\ Len(heap) >= 3
    /\ heap[1].name = "users" /\ heap[1].columns # <<>>
    /\ heap[2].name = "posts"
    /\ heap[Len(heap)].name = "posts"
    /\ current_table = Len(heap)

\* sentences with a table cue and no table name to extract
NamelessDeclarations ==
    {Words(<<"create", "a">>), Words(<<"create", "a", "with", "name">>)}

\* C16: a sentence with a table cue and no extractable name changes nothing: no
\* table, column or relationship is added and current_table keeps its value; the
\* sentence 'with name' that follows it adds the column name to the table that
\* was current before, and nothing when there was none.
C16_NamelessDeclaration ==
    [][/\ (ReadsSentence /\ sentence' \in NamelessDeclarations) =>
              /\ heap' = heap
              /\ tables' = tables
              /\ relationships' = relationships
              /\ current_table' = current_table
       /\ (ReadsSentence /\ sentence \in NamelessDeclarations
               /\ sentence' = Words(<<"with", "name">>)) =>
              IF current_table = NoRef THEN heap' = heap
              ELSE heap' = [heap EXCEPT ![current_table].columns =
                                            Append(@, ShortText("name"))]
      ]_vars

\* the loop has just read 'create a with name' while a table with columns is
\* the current table
C16_Witness ==
    /\ pc = "loop"
    /\ sentence = Words(<<"create", "a", "with", "name">>)
    /\ current_table # NoRef
    /\ heap[current_table].columns # <<>>

\* C17: a sentence with a column cue and no table cue, read while there is a
\* current table, only appends columns to that table (for 'X has many Y', the
\* one column named X): the table's earlier columns stay as a prefix, the other
\* tables, schema.tables, schema.relationships and current_table stay as they
\* are; read while there is no current table it adds no column.
C17_ColumnClauseAppends ==
    [][(ReadsSentence
            /\ WordsOf(sentence') \cap {"table", "entity", "create"} = {}
            /\ WordsOf(sentence') \cap {"has", "with", "contains", "field", "column"} # {}) =>
          IF current_table = NoRef THEN heap' = heap
          ELSE LET before == heap[current_table].columns
                   after == heap'[current_table].columns
               IN  /\ DOMAIN heap' = DOMAIN heap
                   /\ \A r \in DOMAIN heap : r # current_table => heap'[r] = heap[r]
                   /\ heap'[current_table].name = heap[current_table].name
                   /\ Len(after) >= Len(before)
                   /\ SubSeq(after, 1, Len(before)) = before
                   /\ \A X \in InputTables, Y \in InputTables :
                         sentence' = Words(<<X, "has", "many", Y>>) =>
                             after = Append(before, ShortText(X))
                   /\ tables' = tables
                   /\ relationships' = relationships
                   /\ current_table' = current_table
      ]_vars

\* the loop has just read 'posts has many users' while users is the current
\* table: users has a new last column named posts
C17_Witness ==
    /\ pc = "loop"
    /\ sentence = Words(<<"posts", "has", "many", "users">>)
    /\ current_table # NoRef
    /\ heap[current_table].name = "users"
    /\ Len(heap[current_table].columns) >= 2
    /\ heap[current_table].columns[Len(heap[current_table].columns)] = ShortText("posts")
    /\ Len(heap) >= 2

\* C18: a table of the schema and each of its columns are still in the schema
\* after every later step of parse: the table under its name, the column under
\* its name in that table.
C18_NeverRemoved ==
    [][\A i \in DOMAIN tables :
          \E k \in DOMAIN tables' :
              /\ tables'[k].name = tables[i].name
              /\ \A j \in DOMAIN heap[tables[i].ref].columns :
                    \E q \in DOMAIN heap'[tables'[k].ref].columns :
                        heap'[tables'[k].ref].columns[q].name =
                            heap[tables[i].ref].columns[j].name
      ]_vars

\* C19: the foreign key loop leaves a from-table that already holds a column
\* named <to_table>_id with the columns it had, each as it was and where it
\* was, and appends no column of that name to it.
C19_ExistingColumnUntouched ==
    [][(pc = "fk" /\ pc' = "done") =>
        \A i \in DOMAIN relationships :
            LET rel == relationships[i]
                name == rel.to_table \o "_id"
                from_ref == GetTable(tables, rel.from_table)
                before == heap[from_ref].columns
                after == heap'[from_ref].columns
            IN  (from_ref # NoRef /\ ColumnsNamed(heap[from_ref], name) # <<>>) =>
                    /\ Len(after) >= Len(before)
                    /\ SubSeq(after, 1, Len(before)) = before
                    /\ \A j \in DOMAIN after : j > Len(before) => after[j].name # name
      ]_vars

\* parse has returned a schema in which posts references users and the column
\* users_id of posts is the extracted one, without a foreign-key annotation
C19_Witness ==
    /\ pc = "done"
    /\ \E i \in DOMAIN relationships :
          /\ relationships[i].from_table = "posts"
          /\ relationships[i].to_table = "users"
    /\ LET posts == heap[GetTable(tables, "posts")]
       IN  /\ Len(ColumnsNamed(posts, "users_id")) = 1
           /\ ColumnsNamed(posts, "users_id")[1].references = NoReference
           /\ ColumnsNamed(posts, "users_id")[1].data_type = VARCHAR

\* C20: current_table is None exactly when schema.tables is empty; when it is
\* set it is the Table object created last, and schema.tables holds that very
\* object under its name.
C20_CursorIsLatestTable ==
    /\ current_table = NoRef <=> tables = <<>>
    /\ current_table # NoRef =>
          /\ current_table = Len(heap)
          /\ \E i \in DOMAIN tables :
                /\ tables[i].name = heap[current_table].name
                /\ tables[i].ref = current_table

\* the loop is at a point where a table has been declared twice and another
\* after it: the current table is the last one and the first object is no
\* longer in schema.tables
C20_Witness ==
    /\ pc = "loop"
    /\ Len(heap) = 3
    /\ heap[1].name = heap[2].name
    /\ heap[3].name # heap[1].name
    /\ current_table = 3
    /\ \A i \in DOMAIN tables : tables[i].ref # 1

====
